---- MODULE Spec2Model ----
(***************************************************************************)
(* A model of ch2/arty/tree.py: CLRTree = LinearSplitMixin +               *)
(* CartesianMixin + BaseTree, an R-tree over axis-aligned boxes.           *)
(*                                                                         *)
(* Python lists are mutable objects with identity, and the delete loop     *)
(* consumes a generator over the very lists it mutates, so the lists live  *)
(* in a heap: heap[id] is the current content of list object id.  A node   *)
(* is the (immutable) tuple <<height, id>>; an entry of a list is the      *)
(* tuple (mbr, contents), where contents is <<value>> in a leaf and a node *)
(* tuple <<height, id>> in an internal node.  The empty root is None.      *)
(***************************************************************************)
EXTENDS Integers, Sequences, FiniteSets, TLC

(***************************************************************************)
(* Bounds of the model.                                                    *)
(***************************************************************************)
MaxCoord == 1
NumValues == 2
MaxSize == 3

Coords == 0..MaxCoord
Values == 1..NumValues

(***************************************************************************)
(* MatchType                                                               *)
(***************************************************************************)
EQUAL == 0
CONTAINED == 1
CONTAINS == 2
INTERSECT == 3
MatchType == {EQUAL, CONTAINED, CONTAINS, INTERSECT}

None == <<>>
NoExc == "none"

Min2(a, b) == IF a <= b THEN a ELSE b
Max2(a, b) == IF a >= b THEN a ELSE b

Entry(mbr, contents) == [mbr |-> mbr, contents |-> contents]

DelAt(s, i) == [k \in 1..(Len(s) - 1) |-> IF k < i THEN s[k] ELSE s[k + 1]]

\* the normalisation as it would be with the upper y taken against x1
normalize_mbr_crossed(x1, y1, x2, y2) == <<Min2(x1, x2), Min2(y1, y2), Max2(x1, x2), Max2(x1, y2)>>

\* the normalisation as it would be with the corners kept as they were given
normalize_mbr_as_given(x1, y1, x2, y2) == <<x1, y1, x2, y2>>

(***************************************************************************)
(* CartesianMixin: geometry                                                *)
(***************************************************************************)
normalize_mbr(x1, y1, x2, y2) == <<Min2(x1, x2), Min2(y1, y2), Max2(x1, x2), Max2(y1, y2)>>

intersect(mbr1, mbr2) ==
    /\ mbr1[1] <= mbr2[3]
    /\ mbr1[3] >= mbr2[1]
    /\ mbr1[2] <= mbr2[4]
    /\ mbr1[4] >= mbr2[2]

\* contains as it would be with open intervals
contains_strictly(outer, inner) ==
    /\ outer[1] < inner[1]
    /\ outer[3] > inner[3]
    /\ outer[2] < inner[2]
    /\ outer[4] > inner[4]

contains(outer, inner) ==
    /\ outer[1] <= inner[1]
    /\ outer[3] >= inner[3]
    /\ outer[2] <= inner[2]
    /\ outer[4] >= inner[4]

area(mbr) == (mbr[3] - mbr[1]) * (mbr[4] - mbr[2])

\* merge as it would be with the upper y bound of the first box kept
merge_keeps_first_top(mbr1, mbr2) ==
    <<Min2(mbr1[1], mbr2[1]), Min2(mbr1[2], mbr2[2]), Max2(mbr1[3], mbr2[3]), mbr1[4]>>

merge(mbr1, mbr2) ==
    <<Min2(mbr1[1], mbr2[1]), Min2(mbr1[2], mbr2[2]), Max2(mbr1[3], mbr2[3]), Max2(mbr1[4], mbr2[4])>>

RECURSIVE calculate_mbr_from(_, _, _)
calculate_mbr_from(nodes, i, total) ==
    IF i > Len(nodes) THEN total
    ELSE calculate_mbr_from(nodes, i + 1,
                            IF total = None THEN nodes[i].mbr ELSE merge(total, nodes[i].mbr))

calculate_mbr(nodes) == calculate_mbr_from(nodes, 1, None)

(***************************************************************************)
(* BaseTree._best: the entry whose area increases least when mbr is added. *)
(* len(data) in the source is the length of the entry's contents (the loop *)
(* variable shadows the list), which is a node tuple wherever _best is     *)
(* called.  Indices are 1-based here; i = 0 stands for Python's None.      *)
(***************************************************************************)
RECURSIVE best_from(_, _, _, _, _)
best_from(data, mbr, height, i_child, b) ==
    IF i_child > Len(data) THEN b
    ELSE LET mbr_child == data[i_child].mbr
             mbr_merge == merge(mbr_child, mbr)
             area_merge == area(mbr_merge)
             delta_area_merge == area_merge - area(mbr_child)
             len_data == Len(data[i_child].contents)
             cand == [i |-> i_child, mbr |-> mbr_merge, area |-> area_merge,
                      delta |-> delta_area_merge, len |-> len_data]
         IN  IF b.i = 0 THEN best_from(data, mbr, height, i_child + 1, cand)
             ELSE IF \/ delta_area_merge < b.delta
                     \/ (delta_area_merge = b.delta /\ area_merge < b.area)
                     \/ (delta_area_merge = b.delta /\ area_merge = b.area
                         /\ height # 0 /\ len_data < b.len)
                  THEN best_from(data, mbr, height, i_child + 1, cand)
                  ELSE best_from(data, mbr, height, i_child + 1, b)

RECURSIVE best_by_increase_from(_, _, _, _, _)
\* the loop of _best as it would be without the comparison of the merged areas
best_by_increase_from(data, mbr, height, i_child, b) ==
    IF i_child > Len(data) THEN b
    ELSE LET mbr_child == data[i_child].mbr
             mbr_merge == merge(mbr_child, mbr)
             area_merge == area(mbr_merge)
             delta_area_merge == area_merge - area(mbr_child)
             cand == [i |-> i_child, mbr |-> mbr_merge, area |-> area_merge,
                      delta |-> delta_area_merge, len |-> Len(data[i_child].contents)]
         IN  IF b.i = 0 \/ delta_area_merge < b.delta
             THEN best_by_increase_from(data, mbr, height, i_child + 1, cand)
             ELSE best_by_increase_from(data, mbr, height, i_child + 1, b)

best_by_increase(data, mbr, height) ==
    best_by_increase_from(data, mbr, height, 1,
                          [i |-> 0, mbr |-> None, area |-> 0, delta |-> 0, len |-> 0])

\* _best as it would be returning the chosen child's box as stored, not merged
best_unmerged(data, mbr, height) ==
    LET b == best_from(data, mbr, height, 1,
                       [i |-> 0, mbr |-> None, area |-> 0, delta |-> 0, len |-> 0])
    IN  [b EXCEPT !.mbr = data[b.i].mbr]

best(data, mbr, height) ==
    best_from(data, mbr, height, 1, [i |-> 0, mbr |-> None, area |-> 0, delta |-> 0, len |-> 0])

(***************************************************************************)
(* CartesianMixin.__extremes: the greatest lower bound and the least upper *)
(* bound on each axis, and the (1-based) index of the entry that sets it.  *)
(***************************************************************************)
extremes_axis(acc, mbr, i, j) ==
    LET a1 == IF mbr[j] > acc.extreme[j]
              THEN [index |-> [acc.index EXCEPT ![j] = i],
                    extreme |-> [acc.extreme EXCEPT ![j] = mbr[j]]]
              ELSE acc
    IN  IF mbr[j + 2] < a1.extreme[j + 2]
        THEN [index |-> [a1.index EXCEPT ![j + 2] = i],
              extreme |-> [a1.extreme EXCEPT ![j + 2] = mbr[j + 2]]]
        ELSE a1

RECURSIVE extremes_from(_, _, _)
extremes_from(data, i, acc) ==
    IF i > Len(data) THEN acc
    ELSE IF i = 1
         THEN extremes_from(data, 2, [index |-> <<1, 1, 1, 1>>, extreme |-> data[1].mbr])
         ELSE extremes_from(data, i + 1,
                            extremes_axis(extremes_axis(acc, data[i].mbr, i, 1), data[i].mbr, i, 2))

extremes(data) == extremes_from(data, 1, [index |-> None, extreme |-> None])

(***************************************************************************)
(* CartesianMixin._pick_linear_seeds.  x / n raises ZeroDivisionError when *)
(* the root extent on either axis is 0.  Otherwise the comparison of       *)
(* e2/nx - e0/nx with e3/ny - e1/ny is made on the cross-multiplied        *)
(* integers, which is exact for the extents this model draws (1 and 2,     *)
(* where the float divisions are exact as well).                           *)
(***************************************************************************)
\* the choice, given the box of the root and the extremes of the entries
seeds_by_separation(global_mbr, ie) ==
    LET norm_x == global_mbr[3] - global_mbr[1]
        norm_y == global_mbr[4] - global_mbr[2]
        index == ie.index
        e == ie.extreme
        sep_x == (e[3] - e[1]) * norm_y
        sep_y == (e[4] - e[2]) * norm_x
    IN  IF norm_x = 0 \/ norm_y = 0
        THEN [exc |-> "ZeroDivisionError", i |-> 0, j |-> 0]
        ELSE IF sep_x > sep_y /\ index[1] # index[3]
             THEN [exc |-> NoExc, i |-> index[1], j |-> index[3]]
             ELSE IF sep_x < sep_y /\ index[2] # index[4]
                  THEN [exc |-> NoExc, i |-> index[2], j |-> index[4]]
                  ELSE [exc |-> NoExc, i |-> 1, j |-> 2]

pick_linear_seeds(heap, root, data) ==
    seeds_by_separation(calculate_mbr(heap[root[2]]), extremes(data))

(***************************************************************************)
(* LinearSplitMixin._split.  nodes is the list object being divided: it is *)
(* emptied in place (or left with the entries that were bulk-moved).  The  *)
(* two halves are fresh list objects.  The result is [heap, split, exc].   *)
(***************************************************************************)
\* the rest of the entries go to half index, which needs them all to reach min
split_extend(heap, split, rest, index) ==
    LET id == split[index].contents[2]
        h1 == [heap EXCEPT ![id] = heap[id] \o rest]
    IN  [heap |-> h1,
         split |-> [split EXCEPT ![index] = Entry(calculate_mbr(h1[id]), split[index].contents)],
         exc |-> NoExc]

\* nodes.pop() goes to the half b that _best chose
split_place(heap, split, nodes, node, b) ==
    LET id == split[b.i].contents[2]
    IN  [heap |-> [heap EXCEPT ![nodes] = SubSeq(heap[nodes], 1, Len(heap[nodes]) - 1),
                               ![id] = Append(heap[id], node)],
         split |-> [split EXCEPT ![b.i] = Entry(b.mbr, split[b.i].contents)]]

RECURSIVE split_loop(_, _, _, _, _)
split_loop(heap, split, nodes, height, min) ==
    LET rest == heap[nodes]
        fill(index) == Len(heap[split[index].contents[2]]) + Len(rest) = min
        node == rest[Len(rest)]
        placed == split_place(heap, split, nodes, node, best(split, node.mbr, height))
    IN  IF rest = <<>> THEN [heap |-> heap, split |-> split, exc |-> NoExc]
        ELSE IF Len(rest) < min /\ fill(1) THEN split_extend(heap, split, rest, 1)
        ELSE IF Len(rest) < min /\ fill(2) THEN split_extend(heap, split, rest, 2)
        ELSE split_loop(placed.heap, placed.split, nodes, height, min)

\* _split once the seeds are picked
split_seeded(heap, height, nodes, min, seeds) ==
    LET i == seeds.i
        j == seeds.j
        data == heap[nodes]
        id_i == Len(heap) + 1
        id_j == Len(heap) + 2
        h1 == heap \o << <<data[i]>>, <<data[j]>> >>
        split0 == <<Entry(data[i].mbr, <<height, id_i>>), Entry(data[j].mbr, <<height, id_j>>)>>
        h2 == [h1 EXCEPT ![nodes] = DelAt(DelAt(data, Max2(i, j)), Min2(i, j))]
    IN  IF seeds.exc # NoExc
        THEN [heap |-> heap, split |-> None, exc |-> seeds.exc]
        ELSE split_loop(h2, split0, nodes, height, min)

split(heap, root, height, nodes, min) ==
    split_seeded(heap, height, nodes, min, pick_linear_seeds(heap, root, heap[nodes]))

\* for the properties: a call of _split, the list nodes, its entries and those of the root
\* list when it was made, and r, what it returned, with the entries of the two halves
split_called(heap, root, height, nodes, r) ==
    [height |-> height, list |-> nodes, nodes |-> heap[nodes], root |-> heap[root[2]],
     exc |-> r.exc, returned |-> r.split,
     halves |-> IF r.exc = NoExc
                THEN <<r.heap[r.split[1].contents[2]], r.heap[r.split[2].contents[2]]>>
                ELSE None]

\* r with the call added to splits, the calls of _split made so far
split_recorded(splits, heap, root, height, nodes, r) ==
    [heap |-> r.heap, split |-> r.split, exc |-> r.exc,
     splits |-> Append(splits, split_called(heap, root, height, nodes, r))]

(***************************************************************************)
(* BaseTree._add_node: insertion at or below node.  The result carries the *)
(* heap after the in-place updates, the split (None or the two halves) and *)
(* the exception raised, if any; updates made before a raise stay.         *)
(***************************************************************************)
RECURSIVE add_node(_, _, _, _, _, _, _, _)

\* after the recursive call has returned r: the child that split is replaced
add_node_returned(r, root, height, data, i_best, max, min) ==
    LET h2 == [r.heap EXCEPT ![data] = DelAt(r.heap[data], i_best) \o r.split]
    IN  IF r.exc # NoExc THEN r
        ELSE IF r.split # None
             THEN IF Len(h2[data]) <= max
                  THEN [heap |-> h2, split |-> None, exc |-> NoExc, splits |-> r.splits]
                  ELSE split_recorded(r.splits, h2, root, height, data,
                                      split(h2, root, height, data, min))
             ELSE [heap |-> r.heap, split |-> None, exc |-> NoExc, splits |-> r.splits]

\* above the target height: descend into the entry b that _best chose
add_node_below(heap, root, node, target, value, mbr, max, min, b) ==
    LET height == node[1]
        data == node[2]
        i_best == b.i
        child == heap[data][i_best].contents
        h1 == [heap EXCEPT ![data][i_best] = Entry(b.mbr, child)]
    IN  IF height = 0 \/ i_best = 0
        THEN [heap |-> heap, split |-> None, exc |-> "TypeError", splits |-> <<>>]
        ELSE add_node_returned(add_node(h1, root, child, target, value, mbr, max, min),
                               root, height, data, i_best, max, min)

add_node(heap, root, node, target, value, mbr, max, min) ==
    LET height == node[1]
        data == node[2]
        h1 == [heap EXCEPT ![data] = Append(heap[data], Entry(mbr, value))]
    IN  IF height # target
        THEN add_node_below(heap, root, node, target, value, mbr, max, min,
                            best(heap[data], mbr, height))
        ELSE IF Len(h1[data]) <= max
             THEN [heap |-> h1, split |-> None, exc |-> NoExc, splits |-> <<>>]
             ELSE split_recorded(<<>>, h1, root, height, data,
                                 split(h1, root, height, data, min))

\* the new root as it would be with its height taken from the old root's parent-to-be twice
add_root_returned_taller(root, r) ==
    IF r.exc # NoExc
    THEN [root |-> root, heap |-> r.heap, exc |-> r.exc, splits |-> r.splits]
    ELSE IF r.split # None
         THEN [root |-> <<r.split[1].contents[1] + 2, Len(r.heap) + 1>>,
               heap |-> Append(r.heap, r.split), exc |-> NoExc, splits |-> r.splits]
         ELSE [root |-> root, heap |-> r.heap, exc |-> NoExc, splits |-> r.splits]

(***************************************************************************)
(* BaseTree._add_normalized_mbr: internal insertion at height target.      *)
(* value is <<v>> for a stored value, or a node tuple on reinsertion.      *)
(***************************************************************************)
\* r is what _add_node returned for the root: a split makes a new root
add_root_returned(root, r) ==
    IF r.exc # NoExc
    THEN [root |-> root, heap |-> r.heap, exc |-> r.exc, splits |-> r.splits]
    ELSE IF r.split # None
         THEN [root |-> <<r.split[1].contents[1] + 1, Len(r.heap) + 1>>,
               heap |-> Append(r.heap, r.split), exc |-> NoExc, splits |-> r.splits]
         ELSE [root |-> root, heap |-> r.heap, exc |-> NoExc, splits |-> r.splits]

\* the insertion as it would be without the height test on an empty tree
add_normalized_mbr_unchecked(root, heap, target, mbr, value, max, min) ==
    IF root # None
    THEN IF target > root[1]
         THEN [root |-> root, heap |-> heap, exc |-> "Cannot add node", splits |-> <<>>]
         ELSE add_root_returned(root, add_node(heap, root, root, target, value, mbr, max, min))
    ELSE [root |-> <<0, Len(heap) + 1>>,
          heap |-> Append(heap, <<Entry(mbr, value)>>), exc |-> NoExc, splits |-> <<>>]

add_normalized_mbr(root, heap, target, mbr, value, max, min) ==
    IF root # None
    THEN IF target > root[1]
         THEN [root |-> root, heap |-> heap, exc |-> "Cannot add node", splits |-> <<>>]
         ELSE add_root_returned(root, add_node(heap, root, root, target, value, mbr, max, min))
    ELSE IF target # 0
         THEN [root |-> root, heap |-> heap, exc |-> "Cannot add node", splits |-> <<>>]
         ELSE [root |-> <<0, Len(heap) + 1>>, heap |-> Append(heap, <<Entry(mbr, value)>>),
               exc |-> NoExc, splits |-> <<>>]

(***************************************************************************)
(* BaseTree._get_node as the generator it is: frames is the stack of       *)
(* suspended for-loops, each over a list object with the index of the next *)
(* entry to read.  gen_next resumes the generator on the heap as it is now *)
(* and runs it to the next yield or to exhaustion.                         *)
(***************************************************************************)
gen_start(root) ==
    IF root # None THEN <<[height |-> root[1], data |-> root[2], i |-> 1]>> ELSE <<>>

\* the internal test as it would be with CONTAINS pruned like CONTAINED
accept_internal_enclosing(mbr_node, mbr, match) ==
    \/ (match \in {EQUAL, CONTAINED, CONTAINS} /\ contains(mbr_node, mbr))
    \/ (match = INTERSECT /\ intersect(mbr_node, mbr))

accept_internal(mbr_node, mbr, match) ==
    \/ (match \in {EQUAL, CONTAINED} /\ contains(mbr_node, mbr))
    \/ (match \in {CONTAINS, INTERSECT} /\ intersect(mbr_node, mbr))

\* the leaf test as it would be with CONTAINS tested like INTERSECT
accept_leaf_overlapping(mbr_node, mbr, match) ==
    \/ (match = EQUAL /\ mbr = mbr_node)
    \/ (match = CONTAINED /\ contains(mbr_node, mbr))
    \/ (match \in {CONTAINS, INTERSECT} /\ intersect(mbr, mbr_node))

accept_leaf(mbr_node, mbr, match) ==
    \/ (match = EQUAL /\ mbr = mbr_node)
    \/ (match = CONTAINED /\ contains(mbr_node, mbr))
    \/ (match = CONTAINS /\ contains(mbr, mbr_node))
    \/ (match = INTERSECT /\ intersect(mbr, mbr_node))

RECURSIVE gen_next(_, _, _, _, _)
gen_next(heap, frames, mbr, value, match) ==
    IF frames = <<>>
    THEN [done |-> TRUE, frames |-> <<>>, value |-> None, mbr |-> None]
    ELSE LET n == Len(frames)
             f == frames[n]
             data == heap[f.data]
             e == data[f.i]
             adv == [frames EXCEPT ![n].i = f.i + 1]
         IN  IF f.i > Len(data)
             THEN gen_next(heap, SubSeq(frames, 1, n - 1), mbr, value, match)
             ELSE IF f.height # 0
                  THEN IF accept_internal(e.mbr, mbr, match)
                       THEN gen_next(heap,
                                     Append(adv, [height |-> e.contents[1],
                                                  data |-> e.contents[2], i |-> 1]),
                                     mbr, value, match)
                       ELSE gen_next(heap, adv, mbr, value, match)
                  ELSE IF (value = None \/ value = e.contents) /\ accept_leaf(e.mbr, mbr, match)
                       THEN [done |-> FALSE, frames |-> adv, value |-> e.contents, mbr |-> e.mbr]
                       ELSE gen_next(heap, adv, mbr, value, match)

(***************************************************************************)
(* BaseTree._get_normalized_box, fully drained on an unchanging tree: the  *)
(* sequence of (value, mbr) pairs yielded.                                 *)
(***************************************************************************)
RECURSIVE drain(_, _, _, _, _, _)
drain(heap, frames, mbr, value, match, out) ==
    LET g == gen_next(heap, frames, mbr, value, match)
    IN  IF g.done THEN out
        ELSE drain(heap, g.frames, mbr, value, match, Append(out, <<g.value, g.mbr>>))

get_normalized_box(root, heap, mbr, value, match) ==
    drain(heap, gen_start(root), mbr, value, match, <<>>)

get_point(root, heap, x, y, value, match) ==
    get_normalized_box(root, heap, <<x, y, x, y>>, value, match)

get_box(root, heap, x1, y1, x2, y2, value, match) ==
    get_normalized_box(root, heap, normalize_mbr(x1, y1, x2, y2), value, match)

(***************************************************************************)
(* BaseTree._delete_node: remove the first entry, in depth-first order     *)
(* below the entries whose box contains mbr, whose box equals mbr and      *)
(* whose value passes the filter.  found = FALSE is Python's None result.  *)
(* An orphan is the tuple (height, mbr, contents).                         *)
(***************************************************************************)
\* the orphans as they would be with the last entry of the node left out
orphans_but_last(height, data) ==
    [k \in 1..(Len(data) - 1) |->
        [height |-> height, mbr |-> data[k].mbr, contents |-> data[k].contents]]

\* the orphans as they would be if all were tagged as leaf entries
orphans_at_leaf_level(height, data) ==
    [k \in 1..Len(data) |-> [height |-> 0, mbr |-> data[k].mbr, contents |-> data[k].contents]]

orphans(height, data) ==
    [k \in 1..Len(data) |-> [height |-> height, mbr |-> data[k].mbr, contents |-> data[k].contents]]

RECURSIVE delete_node(_, _, _, _, _, _)
delete_node(heap, node, i, mbr, value, min) ==
    LET height == node[1]
        data == node[2]
        e == heap[data][i]
        next == delete_node(heap, node, i + 1, mbr, value, min)
    IN  IF i > Len(heap[data])
        THEN [heap |-> heap, found |-> FALSE, delete |-> FALSE, inserts |-> <<>>]
        ELSE IF height # 0
        THEN IF contains(e.mbr, mbr)
             THEN LET r == delete_node(heap, e.contents, 1, mbr, value, min)
                      d1 == DelAt(r.heap[data], i)
                      children == r.heap[data][i].contents
                      new_mbr == calculate_mbr(r.heap[children[2]])
                  IN  IF r.found
                      THEN IF r.delete
                           THEN IF Len(d1) < min
                                THEN [heap |-> [r.heap EXCEPT ![data] = d1], found |-> TRUE,
                                      delete |-> TRUE,
                                      inserts |-> r.inserts \o orphans(height, d1)]
                                ELSE [heap |-> [r.heap EXCEPT ![data] = d1], found |-> TRUE,
                                      delete |-> FALSE, inserts |-> r.inserts]
                           ELSE [heap |-> [r.heap EXCEPT ![data][i] = Entry(new_mbr, children)],
                                 found |-> TRUE, delete |-> FALSE, inserts |-> r.inserts]
                      ELSE next
             ELSE next
        ELSE IF e.mbr = mbr /\ (value = None \/ value = e.contents)
             THEN LET d1 == DelAt(heap[data], i)
                  IN  IF Len(d1) < min
                      THEN [heap |-> [heap EXCEPT ![data] = d1], found |-> TRUE,
                            delete |-> TRUE, inserts |-> orphans(0, d1)]
                      ELSE [heap |-> [heap EXCEPT ![data] = d1], found |-> TRUE,
                            delete |-> FALSE, inserts |-> <<>>]
             ELSE next

(***************************************************************************)
(* BaseTree._leaves: the leaf entries below a node, in order.  The node is *)
(* a detached orphan, which the insertions do not touch.                   *)
(***************************************************************************)
RECURSIVE leaves(_, _, _)
leaves(heap, node, i) ==
    LET data == heap[node[2]]
    IN  IF i > Len(data) THEN <<>>
        ELSE IF node[1] # 0
             THEN leaves(heap, data[i].contents, 1) \o leaves(heap, node, i + 1)
             ELSE <<data[i]>> \o leaves(heap, node, i + 1)

(***************************************************************************)
(* BaseTree._reinsert: orphans go back whole at their height when that is  *)
(* at most max_height (the root height when _reinsert starts), and leaf by *)
(* leaf otherwise.  t is [root, heap, exc].                                *)
(***************************************************************************)
\* the tree after the insertion into t that returned r; for the properties, its calls of
\* _split are added to splits, and the insertion to adds: the root before and after it, the
\* entries of the root after it and its calls of _split
reinserted(t, r) ==
    [root |-> r.root, heap |-> r.heap, exc |-> r.exc, splits |-> t.splits \o r.splits,
     orphans |-> t.orphans,
     adds |-> Append(t.adds, [before |-> t.root, root |-> r.root, exc |-> r.exc,
                              entries |-> IF r.root = None THEN <<>> ELSE r.heap[r.root[2]],
                              splits |-> r.splits])]

\* for the properties: the orphan insert is added to orphans, with the root that it meets
\* and whether it goes back whole
reinsert_noted(t, insert, whole) ==
    [t EXCEPT !.orphans = Append(@, [height |-> insert.height, contents |-> insert.contents,
                                     root |-> t.root, whole |-> whole])]

RECURSIVE reinsert_leaves(_, _, _, _, _)
reinsert_leaves(t, lvs, k, max, min) ==
    IF k > Len(lvs) \/ t.exc # NoExc THEN t
    ELSE reinsert_leaves(reinserted(t, add_normalized_mbr(t.root, t.heap, 0, lvs[k].mbr,
                                                          lvs[k].contents, max, min)),
                         lvs, k + 1, max, min)

RECURSIVE reinsert_from(_, _, _, _, _, _)
reinsert_from(t, inserts, k, max_height, max, min) ==
    IF k > Len(inserts) \/ t.exc # NoExc THEN t
    ELSE LET insert == inserts[k]
             t1 == IF insert.height > max_height
                   THEN reinsert_leaves(reinsert_noted(t, insert, FALSE),
                                        leaves(t.heap, insert.contents, 1), 1, max, min)
                   ELSE reinserted(reinsert_noted(t, insert, TRUE),
                                   add_normalized_mbr(t.root, t.heap, insert.height,
                                                      insert.mbr, insert.contents, max, min))
         IN  reinsert_from(t1, inserts, k + 1, max_height, max, min)

reinsert(root, heap, inserts, max, min) ==
    LET max_height == IF root # None THEN root[1] ELSE 0
    IN  reinsert_from([root |-> root, heap |-> heap, exc |-> NoExc, splits |-> <<>>,
                       orphans |-> <<>>, adds |-> <<>>],
                      inserts, 1, max_height, max, min)

(***************************************************************************)
(* BaseTree._delete_normalized_mbr: the loop over the generator, which is  *)
(* resumed on the tree as the previous iteration left it.  s is the tree   *)
(* [root, heap, size]; the result adds count and the exception raised.     *)
(* orphaned records the orphans handed to _reinsert, and splits the calls  *)
(* of _split the reinsertions made and steps the iterations completed, for *)
(* the properties.                                                         *)
(***************************************************************************)
RECURSIVE delete_loop(_, _, _, _, _, _, _, _)

\* for the properties: an iteration of the loop, the root it began with, the insertions
\* that _reinsert made and the orphans it was given, the root and the root's entries that
\* the deletion and the reinsertion left, and the root it ended with
delete_step(before, r, root) ==
    [before |-> before, adds |-> r.adds, orphans |-> r.orphans, left |-> r.root,
     entries |-> IF r.root = None THEN <<>> ELSE r.heap[r.root[2]], root |-> root]

\* the match was deleted and r is the tree after _reinsert: count it and go on
delete_reinserted(s, g, count, mbr, value, match, max, min, found, r) ==
    LET collapse == r.root # None /\ Len(r.heap[r.root[2]]) = 1 /\ r.root[1] # 0
        root == IF collapse THEN r.heap[r.root[2]][1].contents ELSE r.root
        s1 == [root |-> root, heap |-> r.heap, size |-> s.size - 1,
               orphaned |-> s.orphaned \o found.inserts, splits |-> s.splits \o r.splits,
               steps |-> Append(s.steps, delete_step(s.root, r, root))]
    IN  IF r.exc # NoExc
        THEN [root |-> r.root, heap |-> r.heap, size |-> s.size, count |-> count,
              exc |-> r.exc, orphaned |-> s.orphaned \o found.inserts,
              splits |-> s.splits \o r.splits, steps |-> s.steps]
        ELSE delete_loop(s1, g.frames, count + 1, mbr, value, match, max, min)

\* delete_found as it would be if the root were kept when _delete_node asks to delete it
delete_found_root_kept(s, g, count, mbr, value, match, max, min, found) ==
    IF ~found.found
    THEN [root |-> s.root, heap |-> s.heap, size |-> s.size, count |-> count,
          exc |-> "Failed to delete", orphaned |-> s.orphaned, splits |-> s.splits,
          steps |-> s.steps]
    ELSE delete_reinserted(s, g, count, mbr, value, match, max, min, found,
                           reinsert(s.root, found.heap, found.inserts, max, min))

\* found is what _delete_node returned for the match g
delete_found(s, g, count, mbr, value, match, max, min, found) ==
    IF ~found.found
    THEN [root |-> s.root, heap |-> s.heap, size |-> s.size, count |-> count,
          exc |-> "Failed to delete", orphaned |-> s.orphaned, splits |-> s.splits,
          steps |-> s.steps]
    ELSE delete_reinserted(s, g, count, mbr, value, match, max, min, found,
                           reinsert(IF found.delete THEN None ELSE s.root, found.heap,
                                    found.inserts, max, min))

\* g is what the generator gave: the next match, or the end of the loop
delete_match(s, g, count, mbr, value, match, max, min) ==
    IF g.done
    THEN [root |-> s.root, heap |-> s.heap, size |-> s.size, count |-> count,
          exc |-> NoExc, orphaned |-> s.orphaned, splits |-> s.splits,
          steps |-> s.steps]
    ELSE IF s.root = None
         THEN [root |-> s.root, heap |-> s.heap, size |-> s.size, count |-> count,
               exc |-> "TypeError", orphaned |-> s.orphaned, splits |-> s.splits,
               steps |-> s.steps]
         ELSE delete_found(s, g, count, mbr, value, match, max, min,
                           delete_node(s.heap, s.root, 1, g.mbr, value, min))

delete_loop(s, frames, count, mbr, value, match, max, min) ==
    delete_match(s, gen_next(s.heap, frames, mbr, value, match), count, mbr, value, match,
                 max, min)

delete_normalized_mbr(root, heap, size, mbr, value, match, max, min) ==
    delete_loop([root |-> root, heap |-> heap, size |-> size, orphaned |-> <<>>,
                 splits |-> <<>>, steps |-> <<>>],
                gen_start(root), 0, mbr, value, match, max, min)

(***************************************************************************)
(* BaseTree.dump and BaseTree._dump: the tuples (height, mbr, value)       *)
(* yielded, fully drained; the value is None for the entries of internal   *)
(* nodes and <<v>> for stored values.                                      *)
(***************************************************************************)
RECURSIVE dump_children_first(_, _, _)
\* the iterator as it would be with an entry yielded after its subtree
dump_children_first(heap, node, i) ==
    LET data == heap[node[2]]
    IN  IF i > Len(data) THEN <<>>
        ELSE IF node[1] # 0
             THEN dump_children_first(heap, data[i].contents, 1)
                    \o << <<node[1], data[i].mbr, None>> >>
                    \o dump_children_first(heap, node, i + 1)
             ELSE << <<node[1], data[i].mbr, data[i].contents>> >>
                    \o dump_children_first(heap, node, i + 1)

RECURSIVE dump_from(_, _, _)
dump_from(heap, node, i) ==
    LET data == heap[node[2]]
    IN  IF i > Len(data) THEN <<>>
        ELSE IF node[1] # 0
             THEN << <<node[1], data[i].mbr, None>> >>
                    \o dump_from(heap, data[i].contents, 1)
                    \o dump_from(heap, node, i + 1)
             ELSE << <<node[1], data[i].mbr, data[i].contents>> >>
                    \o dump_from(heap, node, i + 1)

dump(root, heap) ==
    IF root # None
    THEN << <<root[1] + 1, calculate_mbr(heap[root[2]]), None>> >> \o dump_from(heap, root, 1)
    ELSE <<>>

(***************************************************************************)
(* The calls that only read: get_point and get_box drained of at most n    *)
(* items, __len__, dump drained and assert_consistent.  Each gives the     *)
(* tree as the call leaves it, [root, heap, size], the exception it raised *)
(* and what it returned or yielded.  None of them assigns to a field or to *)
(* a list.                                                                 *)
(***************************************************************************)
read(root, heap, size, exc, returned) ==
    [root |-> root, heap |-> heap, size |-> size, exc |-> exc, returned |-> returned]

RECURSIVE drained(_, _, _, _, _, _, _)

drained_next(heap, mbr, value, match, n, out, g) ==
    IF g.done THEN out
    ELSE drained(heap, g.frames, mbr, value, match, n - 1, Append(out, <<g.value, g.mbr>>))

\* the first n items of the generator, or all it has
drained(heap, frames, mbr, value, match, n, out) ==
    IF n = 0 THEN out
    ELSE drained_next(heap, mbr, value, match, n, out, gen_next(heap, frames, mbr, value, match))

\* get_drained as it would be if the generator emptied the root's list
get_drained_clearing(root, heap, size, mbr, value, match, n) ==
    read(root, IF root = None THEN heap ELSE [heap EXCEPT ![root[2]] = <<>>], size, NoExc,
         drained(heap, gen_start(root), mbr, value, match, n, <<>>))

get_drained(root, heap, size, mbr, value, match, n) ==
    read(root, heap, size, NoExc, drained(heap, gen_start(root), mbr, value, match, n, <<>>))

len(root, heap, size) == read(root, heap, size, NoExc, size)

dump_drained(root, heap, size) == read(root, heap, size, NoExc, dump(root, heap))

\* BaseTree._assert_consistent: [exc, count].  A node differs from the root, compared as
\* tuples, when it lies below it.
RECURSIVE assert_consistent_node(_, _, _, _, _)
RECURSIVE assert_consistent_children(_, _, _, _, _, _, _)

assert_consistent_child(heap, root, data, i, count, max, min, r) ==
    IF r.exc # NoExc THEN r
    ELSE assert_consistent_children(heap, root, data, i + 1, count + r.count, max, min)

assert_consistent_children(heap, root, data, i, count, max, min) ==
    IF i > Len(data) THEN [exc |-> NoExc, count |-> count]
    ELSE IF calculate_mbr(heap[data[i].contents[2]]) # data[i].mbr
         THEN [exc |-> "Bad MBR", count |-> count]
         ELSE assert_consistent_child(heap, root, data, i, count, max, min,
                                      assert_consistent_node(heap, root, data[i].contents,
                                                             max, min))

assert_consistent_node(heap, root, node, max, min) ==
    IF node = None THEN [exc |-> NoExc, count |-> 0]
    ELSE IF Len(heap[node[2]]) < min /\ node # root
         THEN [exc |-> "Too few children", count |-> 0]
         ELSE IF Len(heap[node[2]]) > max
              THEN [exc |-> "Too many children", count |-> 0]
              ELSE IF node[1] # 0
                   THEN assert_consistent_children(heap, root, heap[node[2]], 1, 0, max, min)
                   ELSE [exc |-> NoExc, count |-> Len(heap[node[2]])]

assert_consistent_counted(root, heap, size, r) ==
    IF r.exc # NoExc THEN read(root, heap, size, r.exc, None)
    ELSE IF r.count # size THEN read(root, heap, size, "Unexpected number of leaves", None)
    ELSE read(root, heap, size, NoExc, None)

assert_consistent(root, heap, size, max, min) ==
    IF size # 0 /\ root = None THEN read(root, heap, size, "Emtpy root", None)
    ELSE assert_consistent_counted(root, heap, size,
                                   assert_consistent_node(heap, root, root, max, min))

(***************************************************************************)
(* List objects have no names in the program: two heaps that differ only   *)
(* in the numbering of the lists, or in lists nothing refers to any more,  *)
(* are the same program state.  canon renumbers the lists reachable from   *)
(* the root in depth-first order (keeping sharing, should there be any)    *)
(* and drops the others, as the garbage collector does.                    *)
(***************************************************************************)
RECURSIVE canon_visit(_, _, _)
canon_visit(heap, id, acc) ==
    LET RECURSIVE children(_, _)
        children(i, a) ==
            IF i > Len(heap[id]) THEN a
            ELSE IF Len(heap[id][i].contents) = 2
                 THEN children(i + 1, canon_visit(heap, heap[id][i].contents[2], a))
                 ELSE children(i + 1, a)
    IN  IF acc.map[id] # 0 THEN acc
        ELSE children(1, [map |-> [acc.map EXCEPT ![id] = acc.n + 1], n |-> acc.n + 1])

canon(root, heap) ==
    IF root = None THEN [root |-> None, heap |-> <<>>]
    ELSE LET v == canon_visit(heap, root[2], [map |-> [i \in 1..Len(heap) |-> 0], n |-> 0])
             old(k) == CHOOSE id \in 1..Len(heap) : v.map[id] = k
             rename(e) == IF Len(e.contents) = 2
                          THEN Entry(e.mbr, <<e.contents[1], v.map[e.contents[2]]>>)
                          ELSE e
         IN  [root |-> <<root[1], v.map[root[2]]>>,
              heap |-> [k \in 1..v.n |-> [i \in 1..Len(heap[old(k)]) |-> rename(heap[old(k)][i])]]]

(***************************************************************************)
(* BaseTree.__init__.  min_entries is None or <<n>>.                       *)
(***************************************************************************)
init(max_entries, min_entries) ==
    LET m == IF min_entries = None \/ min_entries[1] = 0
             THEN max_entries \div 2
             ELSE min_entries[1]
    IN  IF m > max_entries \div 2
        THEN [exc |-> "Min number of entries in a node is too high", max |-> 0, min |-> 0]
        ELSE IF m < 1
             THEN [exc |-> "Min number of entries in a node is too low", max |-> 0, min |-> 0]
             ELSE [exc |-> NoExc, max |-> max_entries, min |-> m]

(***************************************************************************)
(* The tree object: self._root, self._size, self._max, self._min, and the  *)
(* list objects its nodes are made of.  raised is the exception the last   *)
(* call ended with ("none" when it returned); an object whose method       *)
(* raised is left as the raise found it and is not used further.           *)
(***************************************************************************)
VARIABLES constructed, self_max, self_min, self_root, self_size, heap, raised

vars == <<constructed, self_max, self_min, self_root, self_size, heap, raised>>

MaxEntriesChoices == {2, 4}
MinEntriesChoices == {None, <<0 - 1>>, <<0>>, <<2>>, <<3>>}
BoxArgs == {<<0, 0, 1, 1>>, <<1, 1, 0, 0>>}
ValueFilters == {None} \cup {<<v>> : v \in Values}

(***************************************************************************)
(* Besides the new object, the search starts from trees that a recorded    *)
(* sequence of add_point(value, x, y) calls builds on a new tree: they are *)
(* deeper than the trees MaxSize lets the search grow from nothing.        *)
(*   1: max 2, five points, height 3 with single-child internal nodes      *)
(*   2: max 4, two groups of three and two points, one split               *)
(*   3: max 4, sixteen points, height 2, the root with three children      *)
(*   4: max 6, eleven points, height 1, the root with three leaves         *)
(***************************************************************************)
Seeds ==
    { [max_entries |-> 2,
       adds |-> << <<1, 0, 1>>, <<2, 1, 0>>, <<2, 1, 0>>, <<2, 1, 0>>, <<1, 1, 0>> >>],
      [max_entries |-> 4,
       adds |-> << <<2, 1, 0>>, <<2, 0, 1>>, <<2, 0, 0>>, <<2, 0, 1>>, <<2, 0, 0>> >>],
      [max_entries |-> 4,
       adds |-> << <<1, 1, 0>>, <<1, 1, 0>>, <<1, 1, 0>>, <<1, 1, 1>>, <<1, 0, 1>>, <<1, 1, 0>>,
                   <<1, 0, 1>>, <<1, 0, 1>>, <<1, 1, 0>>, <<1, 0, 1>>, <<2, 0, 1>>, <<1, 0, 1>>,
                   <<1, 1, 1>>, <<1, 1, 1>>, <<1, 1, 0>>, <<1, 1, 0>> >>],
      [max_entries |-> 6,
       adds |-> << <<1, 1, 1>>, <<1, 1, 0>>, <<1, 1, 1>>, <<1, 0, 0>>, <<1, 0, 1>>, <<1, 0, 1>>,
                   <<1, 1, 0>>, <<1, 0, 1>>, <<1, 0, 1>>, <<1, 0, 0>>, <<1, 0, 1>> >>] }

RECURSIVE build(_, _, _, _, _)

build_added(t, adds, k, max, min, r) ==
    build([root |-> r.root, heap |-> r.heap, size |-> t.size + 1, exc |-> r.exc],
          adds, k + 1, max, min)

build(t, adds, k, max, min) ==
    IF k > Len(adds) \/ t.exc # NoExc THEN t
    ELSE build_added(t, adds, k, max, min,
                     add_normalized_mbr(t.root, t.heap, 0,
                                        <<adds[k][2], adds[k][3], adds[k][2], adds[k][3]>>,
                                        <<adds[k][1]>>, max, min))

\* the object is the tree t, canonical, after a call that ended with t.exc
Holds(t, size) ==
    LET c == canon(t.root, t.heap)
    IN  /\ self_root = c.root
        /\ heap = c.heap
        /\ self_size = size
        /\ raised = t.exc

Built(cfg, t) ==
    /\ cfg.exc = NoExc /\ t.exc = NoExc
    /\ constructed = TRUE
    /\ self_max = cfg.max
    /\ self_min = cfg.min
    /\ Holds(t, t.size)

Seeded(seed, cfg) ==
    Built(cfg, build([root |-> None, heap |-> <<>>, size |-> 0, exc |-> NoExc],
                     seed.adds, 1, cfg.max, cfg.min))

Init ==
    \/ /\ constructed = FALSE
       /\ self_max = 0
       /\ self_min = 0
       /\ self_root = None
       /\ self_size = 0
       /\ heap = <<>>
       /\ raised = NoExc
    \/ \E seed \in Seeds : Seeded(seed, init(seed.max_entries, None))

Construct ==
    /\ ~constructed
    /\ raised = NoExc
    /\ \E max_entries \in MaxEntriesChoices, min_entries \in MinEntriesChoices :
          LET r == init(max_entries, min_entries)
          IN  /\ constructed' = (r.exc = NoExc)
              /\ self_max' = r.max
              /\ self_min' = r.min
              /\ raised' = r.exc
    /\ UNCHANGED <<self_root, self_size, heap>>

Ready == constructed /\ raised = NoExc

\* the object after a call that left the tree t and ended with t.exc
Left(t, size) ==
    LET c == canon(t.root, t.heap)
    IN  /\ self_root' = c.root
        /\ heap' = c.heap
        /\ self_size' = size
        /\ raised' = t.exc
        /\ UNCHANGED <<constructed, self_max, self_min>>

\* add_point and add_box: the insertion, then self._size += 1 unless it raised
AddReturned(r) == Left(r, IF r.exc = NoExc THEN self_size + 1 ELSE self_size)

Added(mbr, value) ==
    AddReturned(add_normalized_mbr(self_root, heap, 0, mbr, value, self_max, self_min))

add_point ==
    /\ Ready
    /\ self_size < MaxSize
    /\ \E v \in Values, x \in Coords, y \in Coords : Added(<<x, y, x, y>>, <<v>>)

add_box ==
    /\ Ready
    /\ self_size < MaxSize
    /\ \E v \in Values, b \in BoxArgs : Added(normalize_mbr(b[1], b[2], b[3], b[4]), <<v>>)

\* delete_point and delete_box
DeleteReturned(r) == Left(r, r.size)

Deleted(mbr, value, match) ==
    DeleteReturned(delete_normalized_mbr(self_root, heap, self_size, mbr, value, match,
                                         self_max, self_min))

delete_point ==
    /\ Ready
    /\ \E x \in Coords, y \in Coords, value \in ValueFilters, match \in MatchType :
          Deleted(<<x, y, x, y>>, value, match)

delete_box ==
    /\ Ready
    /\ \E b \in BoxArgs, value \in ValueFilters, match \in MatchType :
          Deleted(normalize_mbr(b[1], b[2], b[3], b[4]), value, match)

\* the calls that only read: the caller has what they returned, the object is as they left
\* it (these calls make no list, so that the lists keep their numbers)
ReadReturned(r) ==
    /\ self_root' = r.root
    /\ heap' = r.heap
    /\ self_size' = r.size
    /\ raised' = r.exc
    /\ UNCHANGED <<constructed, self_max, self_min>>

\* a get is drained of its first item, or of all that the largest tree can yield
MaxDrained == 16
CallDrains == {1, MaxDrained}

get_point_called ==
    /\ Ready
    /\ \E x \in Coords, y \in Coords, value \in ValueFilters, match \in MatchType,
          n \in CallDrains :
          ReadReturned(get_drained(self_root, heap, self_size, <<x, y, x, y>>, value, match, n))

get_box_called ==
    /\ Ready
    /\ \E b \in BoxArgs, value \in ValueFilters, match \in MatchType, n \in CallDrains :
          ReadReturned(get_drained(self_root, heap, self_size,
                                   normalize_mbr(b[1], b[2], b[3], b[4]), value, match, n))

len_called ==
    /\ Ready
    /\ ReadReturned(len(self_root, heap, self_size))

dump_called ==
    /\ Ready
    /\ ReadReturned(dump_drained(self_root, heap, self_size))

assert_consistent_called ==
    /\ Ready
    /\ ReadReturned(assert_consistent(self_root, heap, self_size, self_max, self_min))

Next ==
    \/ Construct
    \/ add_point
    \/ add_box
    \/ delete_point
    \/ delete_box
    \/ get_point_called
    \/ get_box_called
    \/ len_called
    \/ dump_called
    \/ assert_consistent_called

Spec == Init /\ [][Next]_vars

(***************************************************************************)
(* Vocabulary of the properties.  What a box or a multiset "should" be is  *)
(* written out here on the coordinates, not with the operators above.      *)
(***************************************************************************)
Nodes ==
    IF self_root = None THEN {}
    ELSE {self_root} \cup
         UNION {{heap[i][k].contents : k \in {j \in 1..Len(heap[i]) : Len(heap[i][j].contents) = 2}}
                : i \in 1..Len(heap)}

Height == IF self_root = None THEN 0 - 1 ELSE self_root[1]

StoredLeaves == IF self_root = None THEN <<>> ELSE leaves(heap, self_root, 1)

LeavesOf(root, hp) == IF root = None THEN <<>> ELSE leaves(hp, root, 1)

Count(seq, x) == Cardinality({i \in 1..Len(seq) : seq[i] = x})

Range(seq) == {seq[i] : i \in 1..Len(seq)}

SameBag(s1, s2) == \A x \in Range(s1) \cup Range(s2) : Count(s1, x) = Count(s2, x)

Lo(S) == CHOOSE a \in S : \A b \in S : a <= b

Hi(S) == CHOOSE a \in S : \A b \in S : a >= b

BoundingBox(entries) ==
    <<Lo({entries[k].mbr[1] : k \in 1..Len(entries)}), Lo({entries[k].mbr[2] : k \in 1..Len(entries)}),
      Hi({entries[k].mbr[3] : k \in 1..Len(entries)}), Hi({entries[k].mbr[4] : k \in 1..Len(entries)})>>

Encloses(o, b) == o[1] <= b[1] /\ o[2] <= b[2] /\ b[3] <= o[3] /\ b[4] <= o[4]

Overlaps(a, b) == a[1] <= b[3] /\ b[1] <= a[3] /\ a[2] <= b[4] /\ b[2] <= a[4]

Satisfies(match, q, b) ==
    CASE match = EQUAL -> q = b
      [] match = CONTAINED -> Encloses(b, q)
      [] match = CONTAINS -> Encloses(q, b)
      [] match = INTERSECT -> Overlaps(q, b)

Matching(entries, q, v, match) ==
    LET keep(e) == Satisfies(match, q, e.mbr) /\ (v = None \/ e.contents = v)
    IN  SelectSeq(entries, keep)

NotMatching(entries, q, v, match) ==
    LET keep(e) == ~(Satisfies(match, q, e.mbr) /\ (v = None \/ e.contents = v))
    IN  SelectSeq(entries, keep)

Pairs(entries) == [k \in 1..Len(entries) |-> <<entries[k].contents, entries[k].mbr>>]

QueryBoxes == {normalize_mbr(x1, y1, x2, y2) : x1 \in Coords, y1 \in Coords, x2 \in Coords, y2 \in Coords}

\* the boxes the delete and add actions are called with
CallBoxes == {<<x, y, x, y>> : x \in Coords, y \in Coords}
             \cup {normalize_mbr(b[1], b[2], b[3], b[4]) : b \in BoxArgs}

\* the calls of the properties below, made on the tree as it is now
Add(b, v) == add_normalized_mbr(self_root, heap, 0, b, <<v>>, self_max, self_min)

Del(b, v, m) ==
    delete_normalized_mbr(self_root, heap, self_size, b, v, m, self_max, self_min)

Get(b, v, m) == get_normalized_box(self_root, heap, b, v, m)

Tight(hp) ==
    \A i \in 1..Len(hp) : \A k \in 1..Len(hp[i]) :
        Len(hp[i][k].contents) = 2 => hp[i][k].mbr = BoundingBox(hp[hp[i][k].contents[2]])

(***************************************************************************)
(* C1: after any sequence of add and delete calls, every node other than   *)
(* the root holds between min_entries and max_entries entries, and the     *)
(* root holds at most max_entries entries.                                 *)
(***************************************************************************)
C1_NodeFill ==
    \A n \in Nodes :
        /\ Len(heap[n[2]]) <= self_max
        /\ (n # self_root => Len(heap[n[2]]) >= self_min)

(***************************************************************************)
(* C2: the box of every entry of every internal node equals the merge of   *)
(* the entry boxes its child holds now, in every state the calls reach and *)
(* after one more add to any of them, whatever its size.                   *)
(***************************************************************************)
C2_TightBoxes ==
    /\ Tight(heap)
    /\ Ready =>
          \A b \in CallBoxes, v \in Values :
              LET r == Add(b, v)
              IN  Tight(canon(r.root, r.heap).heap)

\* a tree of height 2 or more, with an internal entry over boxes that differ
C2_Witness ==
    /\ raised = NoExc
    /\ Height >= 2
    /\ \E i \in 1..Len(heap) : \E k \in 1..Len(heap[i]) :
          /\ Len(heap[i][k].contents) = 2
          /\ heap[i][k].contents[1] >= 1
          /\ \E a, b \in Range(heap[heap[i][k].contents[2]]) : a.mbr # b.mbr
          /\ heap[i][k].mbr = BoundingBox(heap[heap[i][k].contents[2]])

(***************************************************************************)
(* C3: the size len(tree) reports equals the number of leaf entries        *)
(* reachable from the root.                                                *)
(***************************************************************************)
C3_SizeIsLeafCount == self_size = Len(StoredLeaves)

(***************************************************************************)
(* C4: a drained get yields exactly the multiset of the stored leaf        *)
(* entries that pass the acceptance test of the match type and, with a     *)
(* value filter, carry that value.                                         *)
(***************************************************************************)
C4_GetIsExact ==
    \A q \in QueryBoxes, v \in ValueFilters, m \in MatchType :
        SameBag(get_normalized_box(self_root, heap, q, v, m),
                Pairs(Matching(StoredLeaves, q, v, m)))

\* a query with a value filter on a tree with internal nodes, where one root
\* entry is pruned, one entry matches, and one fits the box but not the value
C4_Witness ==
    /\ raised = NoExc
    /\ Height >= 1
    /\ \E q \in QueryBoxes, v \in ValueFilters \ {None}, m \in MatchType :
          /\ get_normalized_box(self_root, heap, q, v, m) # <<>>
          /\ \E e \in Range(heap[self_root[2]]) : ~accept_internal(e.mbr, q, m)
          /\ Len(Matching(StoredLeaves, q, None, m)) > Len(Matching(StoredLeaves, q, v, m))

(***************************************************************************)
(* C5: delete returns exactly the number of pairs a get with the same box, *)
(* value and match type yields on the tree just before the call.           *)
(***************************************************************************)
C5_DeleteCountsMatches ==
    Ready =>
        \A b \in CallBoxes, v \in ValueFilters, m \in MatchType :
            LET r == Del(b, v, m)
            IN  r.exc = NoExc => r.count = Len(Get(b, v, m))

(***************************************************************************)
(* C6: after delete returns, a get with the same box, value and match type *)
(* yields nothing.                                                         *)
(***************************************************************************)
C6_NothingLeftToMatch ==
    Ready =>
        \A b \in CallBoxes, v \in ValueFilters, m \in MatchType :
            LET r == Del(b, v, m)
            IN  r.exc = NoExc => get_normalized_box(r.root, r.heap, b, v, m) = <<>>

(***************************************************************************)
(* C7: after an add of (v, b), whatever the size of the tree, the query    *)
(* EQUAL, value v, box b yields at least one pair more than before,        *)
(* duplicates included.                                                    *)
(***************************************************************************)
C7_AddIsFound ==
    Ready =>
        \A b \in CallBoxes, v \in Values :
            LET r == Add(b, v)
            IN  Len(get_normalized_box(r.root, r.heap, b, <<v>>, EQUAL))
                    >= Len(Get(b, <<v>>, EQUAL)) + 1

\* an add of a pair that is stored already, below the root, that splits a node
C7_Witness ==
    /\ Ready
    /\ Height >= 1
    /\ \E b \in CallBoxes, v \in Values :
          LET r == Add(b, v)
          IN  /\ r.exc = NoExc
              /\ Len(r.heap) > Len(heap)
              /\ Len(Get(b, <<v>>, EQUAL)) >= 1
              /\ Len(get_normalized_box(r.root, r.heap, b, <<v>>, EQUAL))
                     = Len(Get(b, <<v>>, EQUAL)) + 1

(***************************************************************************)
(* C8: add_point and add_box never raise, also when the node that splits   *)
(* holds identical or collinear boxes.                                     *)
(***************************************************************************)
C8_AddNeverRaises ==
    Ready => \A b \in CallBoxes, v \in Values : Add(b, v).exc = NoExc

(***************************************************************************)
(* C9: when delete returns k, size is k smaller and k leaf entries fewer   *)
(* are reachable from the root; reinsertion does not change size.          *)
(***************************************************************************)
C9_DeleteSizeAccounting ==
    Ready =>
        \A b \in CallBoxes, v \in ValueFilters, m \in MatchType :
            LET r == Del(b, v, m)
            IN  r.exc = NoExc =>
                    /\ r.size = self_size - r.count
                    /\ Len(LeavesOf(r.root, r.heap)) = Len(StoredLeaves) - r.count

\* a delete that removes two entries or more and reinserts orphans on the way
C9_Witness ==
    /\ Ready
    /\ \E b \in CallBoxes, v \in ValueFilters, m \in MatchType :
          LET r == Del(b, v, m)
          IN  /\ r.exc = NoExc
              /\ r.count >= 2
              /\ r.orphaned # <<>>
              /\ r.root # None
              /\ r.size = self_size - r.count
              /\ Len(LeavesOf(r.root, r.heap)) = r.size

(***************************************************************************)
(* C10: a delete call leaves the multiset of the stored entries that do    *)
(* not satisfy its query unchanged: every orphaned entry is stored again.  *)
(***************************************************************************)
C10_DeleteKeepsTheRest ==
    Ready =>
        \A b \in CallBoxes, v \in ValueFilters, m \in MatchType :
            LET r == Del(b, v, m)
            IN  SameBag(NotMatching(LeavesOf(r.root, r.heap), b, v, m),
                        NotMatching(StoredLeaves, b, v, m))

\* the same, of the calls that return
DeleteThatReturnsKeepsTheRest ==
    Ready =>
        \A b \in CallBoxes, v \in ValueFilters, m \in MatchType :
            LET r == Del(b, v, m)
            IN  r.exc = NoExc =>
                    SameBag(NotMatching(LeavesOf(r.root, r.heap), b, v, m),
                            NotMatching(StoredLeaves, b, v, m))

\* C1 and C3 of the states a call that returned has left
NodeFillAfterReturn == raised = NoExc => C1_NodeFill

SizeIsLeafCountAfterReturn == raised = NoExc => C3_SizeIsLeafCount

(***************************************************************************)
(* C11: a delete call whose query no stored entry satisfies returns 0 and  *)
(* changes nothing: the root, every node's list with its boxes, and the    *)
(* size are as before, and nothing is orphaned or reinserted.              *)
(***************************************************************************)
C11_DeleteOfNothingChangesNothing ==
    Ready =>
        \A b \in CallBoxes, v \in ValueFilters, m \in MatchType :
            Matching(StoredLeaves, b, v, m) = <<>> =>
                LET r == Del(b, v, m)
                IN  /\ r.exc = NoExc
                    /\ r.count = 0
                    /\ r.root = self_root
                    /\ r.heap = heap
                    /\ r.size = self_size
                    /\ r.orphaned = <<>>

\* such a call on a tree of two levels or more, whose search descends below the root
C11_Witness ==
    /\ Ready
    /\ Height >= 1
    /\ \E b \in CallBoxes, v \in ValueFilters, m \in MatchType :
          /\ Matching(StoredLeaves, b, v, m) = <<>>
          /\ \E k \in 1..Len(heap[self_root[2]]) : accept_internal(heap[self_root[2]][k].mbr, b, m)
          /\ LET r == Del(b, v, m)
             IN  r.exc = NoExc /\ r.count = 0 /\ r.root = self_root /\ r.heap = heap

(***************************************************************************)
(* C12: construction succeeds exactly when the minimum, supplied or        *)
(* defaulted to max_entries // 2, is within 1 .. max_entries / 2; a        *)
(* supplied minimum below 1, zero included, or above max_entries / 2 makes *)
(* it fail; the tree constructed has 1 <= min <= max // 2, no root and     *)
(* size 0.                                                                 *)
(***************************************************************************)
Effective(max_entries, min_entries) ==
    IF min_entries = None THEN max_entries \div 2 ELSE min_entries[1]

WithinLimits(max_entries, m) == 1 <= m /\ 2 * m <= max_entries

C12_ConstructionValidates ==
    (~constructed /\ raised = NoExc) =>
        \A max_entries \in MaxEntriesChoices, min_entries \in MinEntriesChoices :
            LET r == init(max_entries, min_entries)
            IN  /\ (r.exc = NoExc) <=> WithinLimits(max_entries, Effective(max_entries, min_entries))
                /\ r.exc = NoExc =>
                      /\ r.max = max_entries
                      /\ r.min = Effective(max_entries, min_entries)
                      /\ self_root = None /\ self_size = 0

\* the same, of every minimum but a supplied zero
ConstructionValidatesNonzero ==
    (~constructed /\ raised = NoExc) =>
        \A max_entries \in MaxEntriesChoices, min_entries \in MinEntriesChoices \ {<<0>>} :
            LET r == init(max_entries, min_entries)
            IN  /\ (r.exc = NoExc) <=> WithinLimits(max_entries, Effective(max_entries, min_entries))
                /\ r.exc = NoExc =>
                      /\ r.max = max_entries
                      /\ r.min = Effective(max_entries, min_entries)
                      /\ self_root = None /\ self_size = 0

\* every tree constructed has its minimum within the limits
ConstructedWithinLimits == constructed => WithinLimits(self_max, self_min)

(***************************************************************************)
(* C13: a point operation at (x, y) does what the box operation with the   *)
(* box (x, y, x, y) does: add_point and add_box leave the same tree or     *)
(* raise the same, get_point and get_box yield the same pairs in the same  *)
(* order, delete_point and delete_box return the same count and leave the  *)
(* same tree, for every value filter and match type.                       *)
(***************************************************************************)
C13_PointIsDegenerateBox ==
    Ready =>
        \A x \in Coords, y \in Coords :
            /\ \A v \in Values :
                  Add(<<x, y, x, y>>, v) = Add(normalize_mbr(x, y, x, y), v)
            /\ \A v \in ValueFilters, m \in MatchType :
                  /\ get_point(self_root, heap, x, y, v, m)
                        = get_box(self_root, heap, x, y, x, y, v, m)
                  /\ Del(<<x, y, x, y>>, v, m) = Del(normalize_mbr(x, y, x, y), v, m)

\* a point whose add splits a node, whose get yields entries and whose delete removes some
C13_Witness ==
    /\ Ready
    /\ Height >= 1
    /\ \E x \in Coords, y \in Coords, v \in Values, m \in MatchType :
          /\ Add(<<x, y, x, y>>, v).exc = NoExc
          /\ Len(Add(<<x, y, x, y>>, v).heap) > Len(heap)
          /\ Add(<<x, y, x, y>>, v) = Add(normalize_mbr(x, y, x, y), v)
          /\ get_point(self_root, heap, x, y, <<v>>, m) # <<>>
          /\ get_point(self_root, heap, x, y, <<v>>, m) = get_box(self_root, heap, x, y, x, y, <<v>>, m)
          /\ Del(<<x, y, x, y>>, <<v>>, m).count >= 1
          /\ Del(<<x, y, x, y>>, <<v>>, m) = Del(normalize_mbr(x, y, x, y), <<v>>, m)

(***************************************************************************)
(* C14: the internal insertion at a target height raises when the target   *)
(* is above the height of the root, or when the tree is empty and the      *)
(* target is not 0; the root, the nodes and their boxes are then as        *)
(* before (the size is the caller's to change, and is not touched).        *)
(***************************************************************************)
TargetHeights == 0..(Height + 3)

\* what _reinsert would pass: a leaf value at height 0, a subtree above
Inserted(target) == IF target = 0 THEN <<1>> ELSE <<target - 1, 0>>

C14_InsertAboveRootRaises ==
    Ready =>
        \A target \in TargetHeights, b \in CallBoxes :
            LET r == add_normalized_mbr(self_root, heap, target, b, Inserted(target),
                                        self_max, self_min)
            IN  ((self_root # None /\ target > Height) \/ (self_root = None /\ target # 0)) =>
                    /\ r.exc = "Cannot add node"
                    /\ r.root = self_root
                    /\ r.heap = heap

\* the error on an empty tree, and on a tree of two levels or more
C14_Witness ==
    /\ Ready
    /\ \/ self_root = None
       \/ Height >= 1
    /\ \E target \in TargetHeights, b \in CallBoxes :
          LET r == add_normalized_mbr(self_root, heap, target, b, Inserted(target),
                                      self_max, self_min)
          IN  /\ target > Height /\ target # 0
              /\ r.exc = "Cannot add node"
              /\ r.root = self_root
              /\ r.heap = heap

(***************************************************************************)
(* C15: a delete call never raises: its generator always finds the entry   *)
(* it yielded ('Failed to delete' does not happen), and the reinsertion of *)
(* the orphans meets neither the height error of the internal insertion    *)
(* nor an arithmetic error in a split.                                     *)
(***************************************************************************)
C15_DeleteNeverRaises ==
    Ready =>
        \A b \in CallBoxes, v \in ValueFilters, m \in MatchType : Del(b, v, m).exc = NoExc

\* the only error a delete call ends with is the division by zero of the seed selection
DeleteRaisesOnlyInSplit ==
    Ready =>
        \A b \in CallBoxes, v \in ValueFilters, m \in MatchType :
            Del(b, v, m).exc \in {NoExc, "ZeroDivisionError"}

(***************************************************************************)
(* C16: dump() of a non-empty tree yields first (root height + 1, the box  *)
(* around the root's entries, None) and then one tuple for every entry of  *)
(* the tree in depth-first preorder, an entry before the entries of its    *)
(* child and the entries of a node in list order: (the height of the node  *)
(* that holds the entry, its box, None for a child and the value for a     *)
(* stored value); the tuples of height 0 are as many as the size; dump()   *)
(* of an empty tree yields nothing.                                        *)
(*                                                                         *)
(* An entry is named by its path, the list positions followed from the     *)
(* root; preorder is the order of the paths with a prefix first and        *)
(* otherwise by the first position that differs.                           *)
(***************************************************************************)
RECURSIVE Holder(_, _, _)
\* the node holding the entry at path p, followed from node at position k; None if there is none
Holder(node, p, k) ==
    IF p[k] > Len(heap[node[2]]) THEN None
    ELSE IF k = Len(p) THEN node
    ELSE IF node[1] = 0 THEN None
    ELSE Holder(heap[node[2]][p[k]].contents, p, k + 1)

Paths ==
    IF self_root = None THEN {}
    ELSE {p \in UNION {[1..n -> 1..(self_max + 1)] : n \in 1..(Height + 1)} :
            Holder(self_root, p, 1) # None}

Before(p, q) ==
    \/ Len(p) < Len(q) /\ \A k \in 1..Len(p) : p[k] = q[k]
    \/ \E k \in 1..Min2(Len(p), Len(q)) :
          /\ p[k] < q[k]
          /\ \A j \in 1..(k - 1) : p[j] = q[j]

Rank(p) == 1 + Cardinality({q \in Paths : Before(q, p)})

Dumped(p) ==
    LET node == Holder(self_root, p, 1)
        e == heap[node[2]][p[Len(p)]]
    IN  <<node[1], e.mbr, IF node[1] # 0 THEN None ELSE e.contents>>

SplitCalls ==
    UNION ( {Range(Add(b, v).splits) : b \in CallBoxes, v \in Values}
            \cup {Range(Del(b, v, m).splits) : b \in CallBoxes, v \in ValueFilters, m \in MatchType} )

SplitPost(c) ==
    /\ Len(c.returned) = 2
    /\ \A k \in 1..2 :
          /\ c.returned[k].contents[1] = c.height
          /\ self_min <= Len(c.halves[k])
          /\ Len(c.halves[k]) <= Len(c.nodes) - self_min
          /\ c.returned[k].mbr = BoundingBox(c.halves[k])
    /\ SameBag(c.halves[1] \o c.halves[2], c.nodes)

C17_SplitPostcondition ==
    Ready =>
        \A c \in SplitCalls :
            /\ Len(c.nodes) = self_max + 1
            /\ c.exc = NoExc
            /\ SplitPost(c)

\* the same, of the calls of _split that return
SplitThatReturnsPostcondition ==
    Ready =>
        \A c \in SplitCalls :
            /\ Len(c.nodes) = self_max + 1
            /\ c.exc = NoExc => SplitPost(c)

\* calls of _split that return: of a leaf and of an internal node, with halves of unequal size
SplitsOfBothKinds ==
    /\ Ready
    /\ \E c \in SplitCalls : c.exc = NoExc /\ c.height = 0 /\ SplitPost(c)
    /\ \E c \in SplitCalls :
          c.exc = NoExc /\ c.height >= 1 /\ SplitPost(c) /\ Len(c.halves[1]) # Len(c.halves[2])

(***************************************************************************)
(* C18: the height of a non-empty tree grows only when the root overflows  *)
(* in an insertion.  An insertion into a non-empty tree, by an add call or *)
(* by the reinsertion of an orphan in a delete call, leaves the height as  *)
(* it was or one more; it is one more exactly when the last thing the      *)
(* insertion did was to split the list of the old root, and the new root,  *)
(* of the old height + 1, then holds the two halves and nothing else.  The *)
(* other steps of a delete call leave the root as it was, or with no root  *)
(* (to be rebuilt by the reinsertions), or one lower.                      *)
(***************************************************************************)
HeightOf(root) == IF root = None THEN 0 - 1 ELSE root[1]

\* an insertion took the root before to the root with these entries, calling _split so:
\* the list of the old root was split, and the new root holds the halves
RootOverflowed(before, entries, splits, max) ==
    /\ splits # <<>>
    /\ LET c == splits[Len(splits)]
       IN  /\ c.height = before[1]
           /\ c.nodes = c.root
           /\ Len(c.nodes) = max + 1
           /\ entries = c.returned
           /\ Len(entries) = 2
           /\ \A k \in 1..2 : entries[k].contents[1] = before[1]

GrowsByRootSplit(before, root, entries, splits, max) ==
    /\ HeightOf(root) \in {before[1], before[1] + 1}
    /\ HeightOf(root) = before[1] + 1 <=> RootOverflowed(before, entries, splits, max)

\* an iteration of a delete call
StepGrowsByRootSplit(st) ==
    /\ \A k \in 1..Len(st.adds) :
          LET a == st.adds[k]
          IN  /\ a.before \in (IF k = 1 THEN {st.before, None} ELSE {st.adds[k - 1].root})
              /\ IF a.before = None THEN a.exc = NoExc /\ HeightOf(a.root) = 0
                 ELSE GrowsByRootSplit(a.before, a.root, a.entries, a.splits, self_max)
    /\ st.adds = <<>> => st.left \in {st.before, None}
    /\ HeightOf(st.root) <= HeightOf(st.left)

C18_HeightGrowsByRootSplit ==
    (Ready /\ self_root # None) =>
        /\ \A b \in CallBoxes, v \in Values :
              LET r == Add(b, v)
              IN  GrowsByRootSplit(self_root, r.root, r.heap[r.root[2]], r.splits, self_max)
        /\ \A b \in CallBoxes, v \in ValueFilters, m \in MatchType :
              LET r == Del(b, v, m)
              IN  \A k \in 1..Len(r.steps) : StepGrowsByRootSplit(r.steps[k])

\* an add that makes a tree of two levels or more one higher, and a delete that
\* reinserts orphans into what is left of the same tree
C18_Witness ==
    /\ Ready
    /\ Height >= 1
    /\ \E b \in CallBoxes, v \in Values :
          LET r == Add(b, v)
          IN  /\ r.exc = NoExc /\ HeightOf(r.root) = Height + 1
              /\ RootOverflowed(self_root, r.heap[r.root[2]], r.splits, self_max)
    /\ \E b \in CallBoxes, v \in ValueFilters, m \in MatchType :
          LET r == Del(b, v, m)
          IN  \E k \in 1..Len(r.steps) : \E j \in 1..Len(r.steps[k].adds) :
                 LET a == r.steps[k].adds[j]
                 IN  a.before # None /\ a.exc = NoExc /\ HeightOf(a.root) = a.before[1]

\* a delete that rebuilds the tree from nothing, a reinsertion splitting the root
RebuildSplitsRoot ==
    /\ Ready
    /\ \E b \in CallBoxes, v \in ValueFilters, m \in MatchType :
          LET r == Del(b, v, m)
          IN  \E k \in 1..Len(r.steps) : \E j \in 1..Len(r.steps[k].adds) :
                 LET a == r.steps[k].adds[j]
                 IN  /\ r.steps[k].adds[1].before = None
                     /\ a.before # None /\ HeightOf(a.root) = a.before[1] + 1
                     /\ RootOverflowed(a.before, a.entries, a.splits, self_max)

(***************************************************************************)
(* C19: a delete call that removes exactly one entry leaves the tree at    *)
(* most one lower than it was; and in every iteration of a delete call,    *)
(* when the deletion and the reinsertion leave an internal root with one   *)
(* child, that child becomes the root, one lower.                          *)
(***************************************************************************)
Collapsible(st) == st.left # None /\ st.left[1] # 0 /\ Len(st.entries) = 1

RootCollapse(st) ==
    IF Collapsible(st)
    THEN /\ st.root = st.entries[1].contents
         /\ HeightOf(st.root) = HeightOf(st.left) - 1
         /\ HeightOf(st.root) = HeightOf(st.before) - 1
    ELSE st.root = st.left

C19_DeleteLowersByOne ==
    Ready =>
        \A b \in CallBoxes, v \in ValueFilters, m \in MatchType :
            LET r == Del(b, v, m)
            IN  /\ (r.exc = NoExc /\ r.count = 1) => Height - HeightOf(r.root) <= 1
                /\ \A k \in 1..Len(r.steps) : RootCollapse(r.steps[k])

\* the root collapse alone
DeleteCollapsesRoot ==
    Ready =>
        \A b \in CallBoxes, v \in ValueFilters, m \in MatchType :
            LET r == Del(b, v, m)
            IN  \A k \in 1..Len(r.steps) : RootCollapse(r.steps[k])

\* a delete of the only entry of a tree of two levels or more, which leaves no tree
LastEntryOfTallTree ==
    /\ Ready
    /\ Height >= 1
    /\ \E b \in CallBoxes, v \in ValueFilters, m \in MatchType :
          LET r == Del(b, v, m)
          IN  r.exc = NoExc /\ r.count = 1 /\ r.root = None

\* a delete of one entry that collapses the root
RootCollapses ==
    /\ Ready
    /\ \E b \in CallBoxes, v \in ValueFilters, m \in MatchType :
          LET r == Del(b, v, m)
          IN  /\ r.exc = NoExc /\ r.count = 1 /\ r.root # None
              /\ Collapsible(r.steps[1]) /\ RootCollapse(r.steps[1])
              /\ HeightOf(r.root) = Height - 1

(***************************************************************************)
(* C20: in every call of _split whose seed selection does not divide by    *)
(* zero, with the separation on an axis being the greatest lower bound of  *)
(* the entries minus their least upper bound, over the extent of the root  *)
(* box on that axis: when the separations of the two axes differ and the   *)
(* entry with the greatest lower bound and the entry with the least upper  *)
(* bound on the axis of the larger separation are two entries, these two   *)
(* are the seeds.                                                          *)
(*                                                                         *)
(* Axis 1 is x and axis 2 is y; of several entries with the same bound the *)
(* first counts, as in __extremes.  The separations are compared after     *)
(* multiplying both by the two extents, which are positive.                *)
(***************************************************************************)
First(S) == CHOOSE i \in S : \A k \in S : i <= k

GreatestLower(nodes, axis) ==
    First({i \in 1..Len(nodes) :
              nodes[i].mbr[axis] = Hi({nodes[k].mbr[axis] : k \in 1..Len(nodes)})})

LeastUpper(nodes, axis) ==
    First({i \in 1..Len(nodes) :
              nodes[i].mbr[axis + 2] = Lo({nodes[k].mbr[axis + 2] : k \in 1..Len(nodes)})})

Extent(c, axis) == BoundingBox(c.root)[axis + 2] - BoundingBox(c.root)[axis]

\* the separation of the entries of c on the axis, times the extents of both axes
Separation(c, axis) ==
    (c.nodes[GreatestLower(c.nodes, axis)].mbr[axis] - c.nodes[LeastUpper(c.nodes, axis)].mbr[axis + 2])
        * Extent(c, 3 - axis)

\* the seeds _pick_linear_seeds returns in the call c
SeedsOf(c) == pick_linear_seeds(<<c.root>>, <<0, 1>>, c.nodes)

SeedsAreExtremesOf(c, axis) ==
    GreatestLower(c.nodes, axis) # LeastUpper(c.nodes, axis) =>
        /\ SeedsOf(c).i = GreatestLower(c.nodes, axis)
        /\ SeedsOf(c).j = LeastUpper(c.nodes, axis)

C20_SeedsOfLargerSeparation ==
    Ready =>
        \A c \in SplitCalls :
            (Extent(c, 1) > 0 /\ Extent(c, 2) > 0) =>
                /\ Separation(c, 1) > Separation(c, 2) => SeedsAreExtremesOf(c, 1)
                /\ Separation(c, 2) > Separation(c, 1) => SeedsAreExtremesOf(c, 2)

\* what the code does: the seeds are the extremes of the axis of the smaller separation
SeedsOfSmallerSeparation ==
    Ready =>
        \A c \in SplitCalls :
            (Extent(c, 1) > 0 /\ Extent(c, 2) > 0) =>
                /\ SeedsOf(c).exc = NoExc
                /\ Separation(c, 1) < Separation(c, 2) => SeedsAreExtremesOf(c, 1)
                /\ Separation(c, 2) < Separation(c, 1) => SeedsAreExtremesOf(c, 2)

\* a call where the separations differ and the extremes of both axes are two entries each
SeparationsDiffer ==
    /\ Ready
    /\ \E c \in SplitCalls :
          /\ Extent(c, 1) > 0 /\ Extent(c, 2) > 0
          /\ Separation(c, 1) # Separation(c, 2)
          /\ \A axis \in 1..2 : GreatestLower(c.nodes, axis) # LeastUpper(c.nodes, axis)

(***************************************************************************)
(* C21: where _best chooses among the entries of an internal node, as the  *)
(* descent of an insertion does at every node above the leaves, and two    *)
(* entries tie on the area increase and on the merged area, the one whose  *)
(* child holds fewer entries is chosen.                                    *)
(*                                                                         *)
(* The choice is compared with the first entry that is least by (area      *)
(* increase, merged area, number of entries of the child), at every node   *)
(* the insertion of a box at height 0 descends through.                    *)
(***************************************************************************)
RECURSIVE Descent(_, _)
\* the internal nodes that the insertion of box visits from node down, in order
Descent(node, box) ==
    IF node[1] = 0 THEN <<>>
    ELSE <<node>> \o Descent(heap[node[2]][best(heap[node[2]], box, node[1]).i].contents, box)

Increase(e, box) == area(merge(e.mbr, box)) - area(e.mbr)

\* entry a is to be preferred to entry b of an internal node
Fewer(a, b, box) ==
    \/ Increase(a, box) < Increase(b, box)
    \/ /\ Increase(a, box) = Increase(b, box)
       /\ area(merge(a.mbr, box)) < area(merge(b.mbr, box))
    \/ /\ Increase(a, box) = Increase(b, box)
       /\ area(merge(a.mbr, box)) = area(merge(b.mbr, box))
       /\ Len(heap[a.contents[2]]) < Len(heap[b.contents[2]])

Preferred(data, box) ==
    First({i \in 1..Len(data) : \A k \in 1..Len(data) : ~Fewer(data[k], data[i], box)})

C21_FewerEntriesBreakTies ==
    (Ready /\ self_root # None) =>
        \A box \in CallBoxes :
            \A n \in Range(Descent(self_root, box)) :
                best(heap[n[2]], box, n[1]).i = Preferred(heap[n[2]], box)

\* what the code does: the third comparison never decides, the first of the ties is chosen
Tied(a, b, box) ==
    Increase(a, box) = Increase(b, box) /\ area(merge(a.mbr, box)) = area(merge(b.mbr, box))

FirstOfTiesIsChosen ==
    (Ready /\ self_root # None) =>
        \A box \in CallBoxes :
            \A n \in Range(Descent(self_root, box)) :
                LET data == heap[n[2]]
                    i == best(data, box, n[1]).i
                IN  /\ \A k \in 1..Len(data) : ~Fewer(data[k], data[i], box) \/ Tied(data[k], data[i], box)
                    /\ \A k \in 1..(i - 1) : ~Tied(data[k], data[i], box)

(***************************************************************************)
(* C22: at every node above the leaves that the insertion of a box visits, *)
(* it descends into the entry whose box needs the smallest area increase   *)
(* to take the new box in, of several such the one with the smallest       *)
(* merged area, of several such the first; and that entry's box becomes    *)
(* the box around its old box and the new one.                             *)
(*                                                                         *)
(* The entry is still in its list after the call unless its child split;   *)
(* the lists that kept their length are the ones looked at.                *)
(***************************************************************************)
Around(a, box) == <<Min2(a[1], box[1]), Min2(a[2], box[2]), Max2(a[3], box[3]), Max2(a[4], box[4])>>

Surface(b) == (b[3] - b[1]) * (b[4] - b[2])

Growth(a, box) == Surface(Around(a, box)) - Surface(a)

Smaller(a, b, box) ==
    \/ Growth(a, box) < Growth(b, box)
    \/ Growth(a, box) = Growth(b, box) /\ Surface(Around(a, box)) < Surface(Around(b, box))

LeastGrowth(data, box) ==
    First({i \in 1..Len(data) : \A k \in 1..Len(data) : ~Smaller(data[k].mbr, data[i].mbr, box)})

\* r is what the insertion of box returned, n a node it visited
DescendedByLeastGrowth(r, n, box) ==
    LET data == heap[n[2]]
        i == LeastGrowth(data, box)
    IN  /\ best(data, box, n[1]).i = i
        /\ best(data, box, n[1]).mbr = Around(data[i].mbr, box)
        /\ Len(r.heap[n[2]]) = Len(data) =>
              r.heap[n[2]] = [data EXCEPT ![i] = Entry(Around(data[i].mbr, box), data[i].contents)]

C22_DescentByLeastGrowth ==
    (Ready /\ self_root # None) =>
        \A box \in CallBoxes, v \in Values :
            \A n \in Range(Descent(self_root, box)) : DescendedByLeastGrowth(Add(box, v), n, box)

\* an insertion through two levels or more that widens a box on its way, at a node where
\* the first entry is not the one chosen
C22_Witness ==
    /\ Ready
    /\ Height >= 2
    /\ \E box \in CallBoxes, v \in Values :
          /\ Add(box, v).exc = NoExc
          /\ \A n \in Range(Descent(self_root, box)) : DescendedByLeastGrowth(Add(box, v), n, box)
          /\ \E n \in Range(Descent(self_root, box)) :
                /\ LeastGrowth(heap[n[2]], box) > 1
                /\ Len(Add(box, v).heap[n[2]]) = Len(heap[n[2]])
                /\ Add(box, v).heap[n[2]] # heap[n[2]]

(***************************************************************************)
(* C23: while a delete reinserts its orphans, every orphan tagged with a   *)
(* height that is at most the height of the tree when its turn comes goes  *)
(* back whole, at that height; an orphan is taken apart into its leaf      *)
(* entries only when the tree is lower than the orphan's height.           *)
(***************************************************************************)
\* the orphan o goes back whole where the tree it meets is high enough for it
WholeWhereItFits(o) == o.height <= HeightOf(o.root) => o.whole

C23_OrphansWholeWhereTheyFit ==
    Ready =>
        \A b \in CallBoxes, v \in ValueFilters, m \in MatchType :
            LET r == Del(b, v, m)
            IN  \A i \in 1..Len(r.steps) : \A k \in 1..Len(r.steps[i].orphans) :
                    WholeWhereItFits(r.steps[i].orphans[k])

\* what the code does: an orphan goes back whole exactly when its height is at most
\* the height the root had when _reinsert began, 0 for a tree without a root
WholeByStartingHeight(st) ==
    \A k \in 1..Len(st.orphans) :
        st.orphans[k].whole
            <=> st.orphans[k].height <= (IF st.orphans[1].root = None THEN 0
                                         ELSE st.orphans[1].root[1])

OrphansWholeByStartingHeight ==
    Ready =>
        \A b \in CallBoxes, v \in ValueFilters, m \in MatchType :
            LET r == Del(b, v, m)
            IN  \A i \in 1..Len(r.steps) : WholeByStartingHeight(r.steps[i])

\* a delete takes an orphan apart
OrphanTakenApart ==
    /\ Ready
    /\ \E b \in CallBoxes, v \in ValueFilters, m \in MatchType :
           LET r == Del(b, v, m)
           IN  \E i \in 1..Len(r.steps) : \E k \in 1..Len(r.steps[i].orphans) :
                   ~r.steps[i].orphans[k].whole

(***************************************************************************)
(* C24: after any sequence of add and delete calls the tree is balanced:   *)
(* every child of a node tagged with a height h > 0 is a node tagged with  *)
(* h - 1, the nodes tagged with 0 hold values only, and so every leaf      *)
(* entry lies at the same depth below the root.                            *)
(***************************************************************************)
\* the entry holds a node, a pair of a height and a list, and not a value
HoldsNode(entry) == Len(entry.contents) = 2

\* the nodes under root in the lists hp, root included, found by following the entries
RECURSIVE NodesUnder(_, _)
NodesUnder(root, hp) ==
    {root} \cup UNION {NodesUnder(hp[root[2]][k].contents, hp)
                       : k \in {j \in 1..Len(hp[root[2]]) : HoldsNode(hp[root[2]][j])}}

\* the depths below node, itself at depth d, at which there are entries holding values
RECURSIVE LeafDepths(_, _, _)
LeafDepths(node, hp, d) ==
    UNION {IF HoldsNode(hp[node[2]][k]) THEN LeafDepths(hp[node[2]][k].contents, hp, d + 1)
           ELSE {d}
           : k \in 1..Len(hp[node[2]])}

Balanced(root, hp) ==
    root # None =>
        /\ \A n \in NodesUnder(root, hp) : \A k \in 1..Len(hp[n[2]]) :
               IF n[1] > 0
               THEN HoldsNode(hp[n[2]][k]) /\ hp[n[2]][k].contents[1] = n[1] - 1
               ELSE n[1] = 0 /\ ~HoldsNode(hp[n[2]][k])
        /\ LeafDepths(root, hp, 0) \subseteq {root[1]}

C24_HeightBalanced == constructed => Balanced(self_root, heap)

\* a balanced tree of height 2 from which a delete takes a subtree and puts it back whole,
\* leaving a balanced tree
C24_Witness ==
    /\ Ready
    /\ Height >= 2
    /\ Balanced(self_root, heap)
    /\ \E b \in CallBoxes, v \in ValueFilters, m \in MatchType :
           LET r == Del(b, v, m)
           IN  /\ r.exc = NoExc
               /\ r.root # None
               /\ Balanced(r.root, r.heap)
               /\ \E i \in 1..Len(r.steps) : \E k \in 1..Len(r.steps[i].orphans) :
                      /\ r.steps[i].orphans[k].whole
                      /\ r.steps[i].orphans[k].height >= 1

\* a call that raised leaves a tree, and it is balanced
BalancedAfterRaise == constructed /\ raised # NoExc /\ self_root # None /\ Balanced(self_root, heap)

(***************************************************************************)
(* C25: after every public operation the root is absent exactly when size  *)
(* is 0, and no node reachable from the root, the root included, has an    *)
(* empty list of entries; in particular a delete that removes the last     *)
(* stored entry clears the root.                                           *)
(***************************************************************************)
NoEmptyNode(root, hp) ==
    root # None => \A n \in NodesUnder(root, hp) : Len(hp[n[2]]) > 0

RootAbsentIffEmptyOnReturn ==
    Ready =>
        /\ self_root = None <=> self_size = 0
        /\ NoEmptyNode(self_root, heap)

SingleChildRoot(root, hp) == root # None /\ root[1] > 0 /\ Len(hp[root[2]]) = 1

C26_NoSingleChildRoot == Ready => ~SingleChildRoot(self_root, heap)

\* the same where min_entries is 2 or more
NoSingleChildRootAboveMinOne == Ready /\ self_min >= 2 => ~SingleChildRoot(self_root, heap)

(***************************************************************************)
(* C27: the calls that only read, get_point and get_box drained fully or   *)
(* in part, len, dump and assert_consistent, leave the state of the tree   *)
(* unchanged: the root, the entries of every node, every recorded box and  *)
(* the size.                                                               *)
(***************************************************************************)
\* the numbers of items of which the gets of the property are drained
DrainLimits == 0..2 \cup {MaxDrained}

\* the tree that the call left is the tree as it is now
TreeUnchanged(r) ==
    /\ canon(r.root, r.heap) = [root |-> self_root, heap |-> heap]
    /\ r.size = self_size

C27_ReadsLeaveTreeUnchanged ==
    Ready =>
        /\ \A b \in QueryBoxes, v \in ValueFilters, m \in MatchType, n \in DrainLimits :
               TreeUnchanged(get_drained(self_root, heap, self_size, b, v, m, n))
        /\ TreeUnchanged(len(self_root, heap, self_size))
        /\ TreeUnchanged(dump_drained(self_root, heap, self_size))
        /\ TreeUnchanged(assert_consistent(self_root, heap, self_size, self_max, self_min))

\* a tree of some height from which a get is drained in part, of one item out of several,
\* and on which the other calls return
C27_Witness ==
    /\ Ready
    /\ Height >= 1
    /\ \E b \in QueryBoxes, v \in ValueFilters, m \in MatchType :
           LET r == get_drained(self_root, heap, self_size, b, v, m, 1)
           IN  /\ Len(r.returned) = 1
               /\ Len(Get(b, v, m)) > 1
               /\ TreeUnchanged(r)
    /\ len(self_root, heap, self_size).returned = self_size
    /\ Len(dump_drained(self_root, heap, self_size).returned) > self_size
    /\ assert_consistent(self_root, heap, self_size, self_max, self_min).exc = NoExc

\* in the model assert_consistent raises on no tree that the calls which returned have left
AssertConsistentReturns ==
    Ready => assert_consistent(self_root, heap, self_size, self_max, self_min).exc = NoExc

(***************************************************************************)
(* C28: after any sequence of add and delete calls every node is reached   *)
(* from the root by exactly one path: no list of entries is referred to by *)
(* two parent entries and there is no cycle; a node detached by a split or *)
(* by the removal of an underflowing node is no longer reached from the    *)
(* root, while the entries it held are.                                    *)
(***************************************************************************)
\* the places, list and position, of the entries of the lists ids of hp that hold a node
NodeEntries(hp, ids) ==
    UNION {{<<i, k>> : k \in {j \in 1..Len(hp[i]) : HoldsNode(hp[i][j])}} : i \in ids}

\* the lists reached from the lists ids in n steps or fewer
RECURSIVE ReachedFrom(_, _, _)
ReachedFrom(hp, ids, n) ==
    IF n = 0 THEN ids
    ELSE ReachedFrom(hp, ids \cup {hp[p[1]][p[2]].contents[2] : p \in NodeEntries(hp, ids)},
                      n - 1)

Reached(root, hp) == IF root = None THEN {} ELSE ReachedFrom(hp, {root[2]}, Len(hp))

\* the entries that refer to the list id from the lists reached
Parents(root, hp, id) ==
    {p \in NodeEntries(hp, Reached(root, hp)) : hp[p[1]][p[2]].contents[2] = id}

\* one path to every list: nothing refers to the root's, one entry refers to each other
OnePathEach(root, hp) ==
    \A id \in Reached(root, hp) :
        Cardinality(Parents(root, hp, id)) = IF id = root[2] THEN 0 ELSE 1

\* the lists of the tree as it is now that the call which returned r detached
Detached(r) == (1..Len(heap)) \ Reached(r.root, r.heap)

\* what a detached list held is in the tree: its nodes unless detached too, and its values
\* unless the call was asked to delete them
DetachedEntriesKept(r, b, v, m) ==
    \A d \in Detached(r) : \A k \in 1..Len(r.heap[d]) :
        IF HoldsNode(r.heap[d][k])
        THEN r.heap[d][k].contents[2] \in Reached(r.root, r.heap) \cup Detached(r)
        ELSE NotMatching(<<r.heap[d][k]>>, b, v, m) # <<>>
                 => r.heap[d][k] \in Range(LeavesOf(r.root, r.heap))

\* the lists that were split are detached, and what they held is in the tree
SplitListsDetached(r) ==
    \A i \in 1..Len(r.splits) :
        r.splits[i].exc = NoExc =>
            /\ r.splits[i].list \notin Reached(r.root, r.heap)
            /\ \A k \in 1..Len(r.splits[i].nodes) :
                   IF HoldsNode(r.splits[i].nodes[k])
                   THEN r.splits[i].nodes[k].contents[2] \in Reached(r.root, r.heap)
                   ELSE r.splits[i].nodes[k] \in Range(LeavesOf(r.root, r.heap))

AddKeepsOnePath(r) ==
    /\ OnePathEach(r.root, r.heap)
    /\ SplitListsDetached(r)
    /\ \A d \in Detached(r) : \E i \in 1..Len(r.splits) : r.splits[i].list = d

DelKeepsOnePath(r, b, v, m) ==
    /\ OnePathEach(r.root, r.heap)
    /\ DetachedEntriesKept(r, b, v, m)

C28_OnePathToEveryNode ==
    constructed =>
        /\ OnePathEach(self_root, heap)
        /\ Reached(self_root, heap) = 1..Len(heap)
        /\ Ready =>
               /\ \A b \in CallBoxes, v \in Values : AddKeepsOnePath(Add(b, v))
               /\ \A b \in CallBoxes, v \in ValueFilters, m \in MatchType :
                      DelKeepsOnePath(Del(b, v, m), b, v, m)

\* the same of the calls that return
OnePathWhereCallsReturn ==
    Ready =>
        /\ OnePathEach(self_root, heap)
        /\ \A b \in CallBoxes, v \in Values :
               LET r == Add(b, v) IN r.exc = NoExc => AddKeepsOnePath(r)
        /\ \A b \in CallBoxes, v \in ValueFilters, m \in MatchType :
               LET r == Del(b, v, m) IN r.exc = NoExc => DelKeepsOnePath(r, b, v, m)

\* a delete detaches lists, by underflow and by a split, and an add detaches a list
ListsDetached ==
    /\ Ready
    /\ \E b \in CallBoxes, v \in Values :
           LET r == Add(b, v) IN r.exc = NoExc /\ Detached(r) # {}
    /\ \E b \in CallBoxes, v \in ValueFilters, m \in MatchType :
           LET r == Del(b, v, m)
           IN  /\ r.exc = NoExc /\ r.root # None
               /\ Cardinality(Detached(r)) >= 2
               /\ Len(r.splits) >= 1

(***************************************************************************)
(* C29: for all canonical boxes a and b, contains(a, b) holds exactly when *)
(* merge(a, b) equals a; merge(a, b) contains both a and b, and every box  *)
(* that contains both a and b contains merge(a, b): merge gives the        *)
(* smallest enclosing box, and equal boxes contain each other.             *)
(***************************************************************************)
MaxCorner == 2
Corners == 0..MaxCorner

\* the canonical boxes with corners on the grid
CanonicalBoxes ==
    {b \in Corners \X Corners \X Corners \X Corners : b[1] <= b[3] /\ b[2] <= b[4]}

MergeIsLeastEnclosing(a, b, boxes) ==
    /\ contains(a, b) <=> merge(a, b) = a
    /\ contains(merge(a, b), a)
    /\ contains(merge(a, b), b)
    /\ \A c \in boxes : contains(c, a) /\ contains(c, b) => contains(c, merge(a, b))

MergeIsLeastEnclosingOnGrid ==
    \A a \in CanonicalBoxes, b \in CanonicalBoxes :
        MergeIsLeastEnclosing(a, b, CanonicalBoxes)

\* the boxes recorded in the tree, of leaf entries and of internal entries
StoredBoxes == UNION {{heap[i][k].mbr : k \in 1..Len(heap[i])} : i \in 1..Len(heap)}

C29_MergeIsLeastEnclosing ==
    /\ MergeIsLeastEnclosingOnGrid
    /\ \A a \in StoredBoxes, b \in StoredBoxes : MergeIsLeastEnclosing(a, b, StoredBoxes)

\* the tree holds an entry whose box contains the box of another and is not that box, so
\* that their merge is the first; and there are boxes of which neither contains the other
C29_Witness ==
    /\ Ready
    /\ \E a \in StoredBoxes, b \in StoredBoxes :
           a # b /\ contains(a, b) /\ merge(a, b) = a
    /\ \E a \in CanonicalBoxes, b \in CanonicalBoxes :
           /\ ~contains(a, b) /\ ~contains(b, a)
           /\ intersect(a, b)
           /\ merge(a, b) \notin {a, b}

(***************************************************************************)
(* C30: after any sequence of public calls, add_box being given its        *)
(* corners in any order, every box stored in the tree, of leaf entries and *)
(* of internal entries, is canonical: xmin <= xmax and ymin <= ymax; so    *)
(* every area that an insertion or a split computes is not negative, and a *)
(* box stored with its corners swapped is found by an EQUAL query that     *)
(* gives the corners in any order.                                         *)
(***************************************************************************)
Canonical(b) == b[1] <= b[3] /\ b[2] <= b[4]

\* the same box with its corners given in the four orders
CornerOrders(b) ==
    {<<b[1], b[2], b[3], b[4]>>, <<b[3], b[4], b[1], b[2]>>,
     <<b[1], b[4], b[3], b[2]>>, <<b[3], b[2], b[1], b[4]>>}

\* the boxes recorded in the lists hp
BoxesIn(hp) == UNION {{hp[i][k].mbr : k \in 1..Len(hp[i])} : i \in 1..Len(hp)}

\* the areas an insertion of b computes are of recorded boxes and of their merges with b
\* and with each other
AreasNotNegative(hp, b) ==
    \A x \in BoxesIn(hp) \cup {b} : \A y \in BoxesIn(hp) \cup {b} :
        area(x) >= 0 /\ area(merge(x, y)) >= 0

\* add_box(v, c) on the tree as it is now: the box is stored canonical, the areas are not
\* negative, and get_box finds it whatever the order of the corners
StoredCanonical(c, v, r) ==
    /\ \A x \in BoxesIn(r.heap) : Canonical(x)
    /\ AreasNotNegative(heap, normalize_mbr(c[1], c[2], c[3], c[4]))
    /\ AreasNotNegative(r.heap, normalize_mbr(c[1], c[2], c[3], c[4]))
    /\ \A o \in CornerOrders(c) :
           <<<<v>>, normalize_mbr(c[1], c[2], c[3], c[4])>>
               \in Range(get_box(r.root, r.heap, o[1], o[2], o[3], o[4], <<v>>, EQUAL))

C30_StoredBoxesCanonical ==
    constructed =>
        /\ \A x \in StoredBoxes : Canonical(x)
        /\ Ready =>
               \A c \in Coords \X Coords \X Coords \X Coords, v \in Values :
                   StoredCanonical(c, v, Add(normalize_mbr(c[1], c[2], c[3], c[4]), v))

\* a box given with its corners swapped is added to a tree of some height and found by
\* the query that gives them swapped and by the query that gives them in order
C30_Witness ==
    /\ Ready
    /\ Height >= 1
    /\ \E v \in Values :
           LET r == Add(normalize_mbr(1, 1, 0, 0), v)
           IN  /\ r.exc = NoExc
               /\ <<0, 0, 1, 1>> \notin StoredBoxes
               /\ <<<<v>>, <<0, 0, 1, 1>>>>
                      \in Range(get_box(r.root, r.heap, 1, 1, 0, 0, <<v>>, EQUAL))
               /\ <<<<v>>, <<0, 0, 1, 1>>>>
                      \in Range(get_box(r.root, r.heap, 0, 0, 1, 1, <<v>>, EQUAL))
               /\ <<<<v>>, <<0, 0, 1, 1>>>>
                      \in Range(get_box(r.root, r.heap, 0, 1, 1, 0, <<v>>, EQUAL))

====
